---- MODULE Spec2Model ----
(***************************************************************************)
(* Model of vl6180x_multi.MultiSensor: the constructor's parameter checks, *)
(* the address reallocation sequence (_realloc_addr) and the three read    *)
(* accessors.  Every hardware call (GPIO, bus construction, bus scan,       *)
(* device open, register write, sensor read) is a step whose outcome the   *)
(* environment chooses: it returns or it raises an exception.  The calls   *)
(* issued so far are kept, in order and with their outcome, in the         *)
(* variable calls.                                                         *)
(***************************************************************************)
EXTENDS Integers, Sequences, FiniteSets

\* ------------------------------------------------------------------ bounds
\* Longest ce_gpios / new_i2c_addresses / offsets list that is tried.
MaxN == 3

\* --------------------------------------------------------- program constants
\* Register for changing the device bus address (0x212).
SUBORDINATE_ADDR_REG == 530
\* default_i2c_address=0x29
DEFAULT_I2C_ADDRESS == 41
\* Largest 7-bit bus address accepted by the parameter checks.
MAX_I2C_ADDRESS == 127

\* ------------------------------------------------------------ input pools
\* The i-th enable pin: 10, 9, 11 as in the example, then 12, 13, ...
Pin(i) == CASE i = 1 -> 10 [] i = 2 -> 9 [] OTHER -> 8 + i
Pins == {Pin(i) : i \in 1..MaxN + 1}
\* ce_gpios of length m.
CeGpios(m) == [i \in 1..m |-> Pin(i)]
\* Addresses a caller may request: the default, three free ones (0x30, 0x31,
\* 0x32) and one above the 7-bit range.
AddressPool == {DEFAULT_I2C_ADDRESS, 48, 49, 50, MAX_I2C_ADDRESS + 1}
\* Addresses some other device may already answer at when the bus is scanned.
ScanPool == {48, 49}
\* The offsets lists of length m that are tried: 100 for every device, as in
\* the example, and a list of distinct signed values.
ExampleOffset == 100
OffsetAt(i) == IF i = 1 THEN ExampleOffset ELSE 3 - 2 * i
OffsetLists(m) == {[i \in 1..m |-> ExampleOffset], [i \in 1..m |-> OffsetAt(i)]}
NoneOffsets == [kind |-> "None", items |-> <<>>]
ListOffsets(s) == [kind |-> "list", items |-> s]
ModePool == {"BCM", "BOARD", "OTHER"}
DefaultPool == {DEFAULT_I2C_ADDRESS, MAX_I2C_ADDRESS + 1}
\* Exceptions a hardware call may raise.  The loops of _realloc_addr catch
\* OSError alone; ValueError and RuntimeError stand for every other
\* Exception, which only the except clause of __init__ sees.
OtherErrors == {"ValueError", "RuntimeError"}
ErrPool == {"OSError"} \cup OtherErrors

SeqsUpTo(S, n) == UNION {[1..m -> S] : m \in 0..n}

VARIABLES
    ce_gpios,             \* argument: list of enable pins
    new_i2c_addresses,    \* argument: list of target addresses
    offsets,              \* argument: None or a list of offsets
    mode_gpio,            \* argument: pin numbering scheme
    default_i2c_address,  \* argument: address of a freshly enabled device
    pc,                   \* position in __init__ / _realloc_addr
    exc,                  \* exception that left the constructor, or "none"
    gpio,                 \* level of every enable pin
    device_addr,          \* address the device on a pin answers at (0: none)
    busy_addr,            \* result of i2c.scan()
    working_address,      \* the dict address -> channel, in insertion order
    k,                    \* position of the first loop in working_address
    j,                    \* position of the second loop in the zip
    sensors,              \* the local list sensors
    self_sensors,         \* self.sensors
    calls,                \* hardware calls issued so far, with their outcome
    result                \* outcome of the last get_* call

vars == <<ce_gpios, new_i2c_addresses, offsets, mode_gpio, default_i2c_address,
          pc, exc, gpio, device_addr, busy_addr, working_address, k, j,
          sensors, self_sensors, calls, result>>

inputs == <<ce_gpios, new_i2c_addresses, mode_gpio, default_i2c_address>>

\* ---------------------------------------------------------------- helpers
Min(a, b) == IF a <= b THEN a ELSE b

\* One hardware call: op, up to three integer arguments, and the exception it
\* raised ("none" when it returned); ok tells whether it returned.
\*   setmode      -                     setup        -
\*   output_low   -   (the whole list)
\*   i2c          -   (busio.I2C)       scan         -
\*   output_high  x = channel
\*   temp_open    x = address
\*   write        x = handle address, y = register, z = value
\*   final_open   x = address, y = offset
Call(op, x, y, z, err) ==
    [op |-> op, x |-> x, y |-> y, z |-> z, ok |-> (err = "none"), err |-> err]

\* Mutant: the range of the target addresses is not checked.
ControlParametersNoRange(ce, addrs, offs, mode, dflt) ==
    /\ Len(ce) = Len(addrs)
    /\ offs.kind = "list"
    /\ Len(ce) = Len(offs.items)
    /\ mode \in {"BCM", "BOARD"}
    /\ 0 <= dflt /\ dflt <= 127

\* The asserts of __init__ ("Control parameters"): TRUE iff every one passes.
ControlParameters(ce, addrs, offs, mode, dflt) ==
    /\ Len(ce) = Len(addrs)
    /\ offs.kind = "list"
    /\ Len(ce) = Len(offs.items)
    /\ \A i \in 1..Len(addrs) : 0 <= addrs[i] /\ addrs[i] <= MAX_I2C_ADDRESS
    /\ mode \in {"BCM", "BOARD"}
    /\ 0 <= dflt /\ dflt <= MAX_I2C_ADDRESS

\* if offsets is None: offsets = [0] * len(ce_gpios)
DefaultOffsets(offs, ce) ==
    IF offs.kind = "None" THEN ListOffsets([i \in 1..Len(ce) |-> 0]) ELSE offs

\* Mutant: a repeated key keeps the value it was first given.
DictSetKeepFirst(d, key, val) ==
    IF \E i \in 1..Len(d) : d[i].addr = key
    THEN d
    ELSE Append(d, [addr |-> key, channel |-> val])

\* Mutant: a new key goes to the front, so the entries come out in reverse.
DictSetFront(d, key, val) ==
    IF \E i \in 1..Len(d) : d[i].addr = key
    THEN [i \in 1..Len(d) |->
            IF d[i].addr = key THEN [addr |-> key, channel |-> val] ELSE d[i]]
    ELSE <<[addr |-> key, channel |-> val]>> \o d

\* d[key] = val on a dict kept as a sequence of records in insertion order:
\* an existing key keeps its position and takes the new value.
DictSet(d, key, val) ==
    IF \E i \in 1..Len(d) : d[i].addr = key
    THEN [i \in 1..Len(d) |->
            IF d[i].addr = key THEN [addr |-> key, channel |-> val] ELSE d[i]]
    ELSE Append(d, [addr |-> key, channel |-> val])

\* The dict comprehension over the first n pairs of zip(i2c_addresses, channels).
RECURSIVE DictComp(_, _, _, _)
DictComp(addrs, chans, busy, n) ==
    IF n = 0 THEN <<>>
    ELSE LET d == DictComp(addrs, chans, busy, n - 1)
         IN  IF addrs[n] \in busy THEN d ELSE DictSet(d, addrs[n], chans[n])

\* Mutant: the scan result is not consulted.
WorkingAddressAll(addrs, chans, busy) ==
    DictComp(addrs, chans, {}, Min(Len(addrs), Len(chans)))

WorkingAddress(addrs, chans, busy) ==
    DictComp(addrs, chans, busy, Min(Len(addrs), Len(chans)))

\* Mutant: the whole list is driven high instead of the one channel.
OutputHighAll(g, channel) == [p \in DOMAIN g |-> IF g[p] = "LOW" THEN "HIGH" ELSE g[p]]

\* Effect of GPIO.output(channel, GPIO.HIGH) on the pins.
OutputHigh(g, channel) == [g EXCEPT ![channel] = "HIGH"]

\* A device released from reset answers at the default address.
PowerUp(dev, g, channel, dflt) ==
    IF g[channel] = "HIGH" THEN dev ELSE [dev EXCEPT ![channel] = dflt]

\* A write of value to the address register through a handle at address at:
\* every un-reset device answering at that address takes the new address.
WriteEffect(dev, at, value) ==
    [p \in DOMAIN dev |-> IF dev[p] = at /\ at # 0 THEN value ELSE dev[p]]

\* Mutant: the handle is built without the offset argument.
AppendSensorNoOffset(s, address, offset) ==
    Append(s, [address |-> address, offset |-> 0])

\* sensors.append(sensor)
AppendSensor(s, address, offset) ==
    Append(s, [address |-> address, offset |-> offset])

\* Mutant: the handle is put at the front of the list.
SensorsAfterOpenFront(s, address, offset, ok) ==
    IF ok THEN <<[address |-> address, offset |-> offset]>> \o s ELSE s

\* Mutant: a handle is appended even when the open raised.
SensorsAfterOpenAlways(s, address, offset, ok) == AppendSensor(s, address, offset)

\* The try block of the second loop: the handle is appended when the open
\* returned; when it raised OSError the list stays as it is.
SensorsAfterOpen(s, address, offset, ok) ==
    IF ok THEN AppendSensor(s, address, offset) ELSE s

\* self.sensors[idx] on a list of length n: does it raise IndexError, and
\* which position (counted from 1) does it take otherwise.
IndexInRange(n, idx) == -n <= idx /\ idx < n
ListPosition(n, idx) == IF idx < 0 THEN n + idx + 1 ELSE idx + 1

\* Mutant: only IndexError is caught, a failed read leaves the method.
ReadOutcomePropagate(n, idx, readOk) ==
    IF ~(-n <= idx /\ idx < n) THEN "None"
    ELSE IF ~readOk THEN "raised"
    ELSE "value"

\* What a get_* method hands back: "value" (the sensor's reading), "None",
\* or "raised" when an exception leaves the method.  Both except clauses
\* give None.
ReadOutcome(n, idx, readOk) ==
    IF ~IndexInRange(n, idx) THEN "None"
    ELSE IF ~readOk THEN "None"
    ELSE "value"

NoResult == [op |-> "none", idx |-> 0, gain |-> 0, read |-> "none",
             outcome |-> "none", address |-> 0, val |-> 0]

\* The record left by one get_* call on the list s: the arguments, whether
\* the sensor read was issued and how it ended, what the method handed back,
\* and the address of the handle that was read.
Query(op, s, idx, gain, readOk, v) ==
    LET out == ReadOutcome(Len(s), idx, readOk)
    IN  [op |-> op, idx |-> idx, gain |-> gain,
         read |-> IF ~IndexInRange(Len(s), idx) THEN "none"
                  ELSE IF readOk THEN "ok" ELSE "failed",
         outcome |-> out,
         address |-> IF IndexInRange(Len(s), idx)
                     THEN s[ListPosition(Len(s), idx)].address ELSE 0,
         val |-> IF out = "value" THEN v ELSE 0]

\* Indices, gains and readings tried by the get_* calls.
IdxPool == -(MaxN + 1)..(MaxN + 1)
GainPool == {1, 40}
Readings == {0, 255}
\* What the sensor read does: it returns a reading, or it raises.
Reads == {[ok |-> TRUE, v |-> x] : x \in Readings} \cup {[ok |-> FALSE, v |-> 0]}

\* ------------------------------------------------------------------- Init
Init ==
    /\ ce_gpios \in {CeGpios(m) : m \in 0..MaxN}
    /\ new_i2c_addresses \in SeqsUpTo(AddressPool, MaxN)
    /\ offsets \in {NoneOffsets}
                    \cup {ListOffsets(s) : s \in UNION {OffsetLists(m) : m \in 0..MaxN}}
    /\ mode_gpio \in ModePool
    /\ default_i2c_address \in DefaultPool
    /\ pc = "check"
    /\ exc = "none"
    /\ gpio = [p \in Pins |-> "UNSET"]
    /\ device_addr = [p \in Pins |-> 0]
    /\ busy_addr = {}
    /\ working_address = <<>>
    /\ k = 1
    /\ j = 1
    /\ sensors = <<>>
    /\ self_sensors = <<>>
    /\ calls = <<>>
    /\ result = NoResult

\* ---------------------------------------------------------------- actions
\* __init__, the asserts and the offsets default.
CheckParameters ==
    /\ pc = "check"
    /\ IF ControlParameters(ce_gpios, new_i2c_addresses, offsets, mode_gpio,
                            default_i2c_address)
       THEN /\ offsets' = DefaultOffsets(offsets, ce_gpios)
            /\ pc' = "gpio"
            /\ exc' = exc
       ELSE /\ offsets' = offsets
            /\ pc' = "raised"
            /\ exc' = "AssertionError"
    /\ UNCHANGED <<inputs, result, gpio, device_addr, busy_addr, working_address, k, j,
                   sensors, self_sensors, calls>>

\* GPIO.setmode, GPIO.setup(ce_gpios, OUT), GPIO.output(ce_gpios, LOW).
GpioSetup ==
    /\ pc = "gpio"
    /\ LET held == {ce_gpios[i] : i \in 1..Len(ce_gpios)}
       IN  /\ gpio' = [p \in Pins |-> IF p \in held THEN "LOW" ELSE gpio[p]]
           /\ device_addr' = [p \in Pins |-> IF p \in held THEN 0 ELSE device_addr[p]]
    /\ calls' = calls \o << Call("setmode", 0, 0, 0, "none"),
                            Call("setup", 0, 0, 0, "none"),
                            Call("output_low", 0, 0, 0, "none") >>
    /\ pc' = "scan"
    /\ UNCHANGED <<inputs, result, offsets, exc, busy_addr, working_address, k, j,
                   sensors, self_sensors>>

\* The GPIO calls of __init__, in the order they are made.
GpioCalls == <<"setmode", "setup", "output_low">>

\* One of GPIO.setmode, GPIO.setup, GPIO.output(ce_gpios, LOW) raises: the
\* calls after it are not made, __init__ prints the error and re-raises.
GpioSetupRaises ==
    /\ pc = "gpio"
    /\ \E n \in 1..Len(GpioCalls), e \in ErrPool :
         /\ calls' = calls \o [i \in 1..n |->
                          Call(GpioCalls[i], 0, 0, 0, IF i = n THEN e ELSE "none")]
         /\ exc' = e
    /\ pc' = "raised"
    /\ UNCHANGED <<inputs, result, offsets, gpio, device_addr, busy_addr,
                   working_address, k, j, sensors, self_sensors>>

\* Mutant: the bus is scanned again before every entry.
AfterEntryRescan(i, w) == IF i < Len(w) THEN "scan" ELSE "final"

\* Where the first loop goes after the entry at position i.
AfterEntry(i, w) == IF i < Len(w) THEN "enable" ELSE "final"

\* Mutant: after an OSError the temporary open is tried again.
AfterOSErrorRetry(i, w) == "open"

\* Mutant: the first loop has no except clause, the OSError leaves it.
AfterOSErrorRaise(i, w) == "raised"

\* Mutant: an OSError in the first loop ends the loop.
AfterOSErrorBreak(i, w) == "final"

\* except OSError in the first loop: the error is printed and the loop goes
\* on with the next entry.
AfterOSError(i, w) == AfterEntry(i, w)

\* i2c = busio.I2C(...), busy_addr = i2c.scan() and the working_address
\* comprehension.
Scan ==
    /\ pc = "scan"
    /\ \E busy \in SUBSET ScanPool :
         LET w == WorkingAddress(new_i2c_addresses, ce_gpios, busy)
         IN  /\ busy_addr' = busy
             /\ working_address' = w
             /\ pc' = AfterEntry(0, w)
    /\ k' = 1
    /\ calls' = calls \o << Call("i2c", 0, 0, 0, "none"),
                            Call("scan", 0, 0, 0, "none") >>
    /\ UNCHANGED <<inputs, result, offsets, exc, gpio, device_addr, j, sensors,
                   self_sensors>>

\* i2c.scan() raises, OSError or another exception: it is outside the try
\* blocks of _realloc_addr, so __init__ prints it and re-raises.
ScanFails ==
    /\ pc = "scan"
    /\ \E e \in ErrPool :
         /\ calls' = calls \o << Call("i2c", 0, 0, 0, "none"),
                                 Call("scan", 0, 0, 0, e) >>
         /\ exc' = e
    /\ pc' = "raised"
    /\ UNCHANGED <<inputs, result, offsets, gpio, device_addr, busy_addr,
                   working_address, k, j, sensors, self_sensors>>

\* busio.I2C(board.SCL, board.SDA) raises: no scan is made, __init__ prints
\* the error and re-raises.
I2CRaises ==
    /\ pc = "scan"
    /\ \E e \in ErrPool :
         /\ calls' = Append(calls, Call("i2c", 0, 0, 0, e))
         /\ exc' = e
    /\ pc' = "raised"
    /\ UNCHANGED <<inputs, result, offsets, gpio, device_addr, busy_addr,
                   working_address, k, j, sensors, self_sensors>>

\* Mutant: the line is taken from the channels list by the loop's position.
EnableByPosition ==
    /\ pc = "enable"
    /\ LET channel == ce_gpios[k]
       IN  /\ gpio' = OutputHigh(gpio, channel)
           /\ device_addr' = PowerUp(device_addr, gpio, channel, default_i2c_address)
           /\ calls' = Append(calls, Call("output_high", channel, 0, 0, "none"))
    /\ pc' = "open"
    /\ UNCHANGED <<inputs, result, offsets, exc, busy_addr, working_address, k, j,
                   sensors, self_sensors>>

\* GPIO.output(channel, GPIO.HIGH) and the settle delay.
Enable ==
    /\ pc = "enable"
    /\ LET channel == working_address[k].channel
       IN  /\ gpio' = OutputHigh(gpio, channel)
           /\ device_addr' = PowerUp(device_addr, gpio, channel, default_i2c_address)
           /\ calls' = Append(calls, Call("output_high", channel, 0, 0, "none"))
    /\ pc' = "open"
    /\ UNCHANGED <<inputs, result, offsets, exc, busy_addr, working_address, k, j,
                   sensors, self_sensors>>

\* GPIO.output(channel, GPIO.HIGH) raises: the call is outside the try block
\* of the loop, so whatever it raises leaves _realloc_addr; __init__ prints
\* it and re-raises.
EnableRaises ==
    /\ pc = "enable"
    /\ \E e \in ErrPool :
         /\ calls' = Append(calls, Call("output_high", working_address[k].channel,
                                        0, 0, e))
         /\ exc' = e
    /\ pc' = "raised"
    /\ UNCHANGED <<inputs, result, offsets, gpio, device_addr, busy_addr,
                   working_address, k, j, sensors, self_sensors>>

\* Mutant: the temporary handle is opened at the target address.
TempOpenAtTarget ==
    /\ pc = "open"
    /\ calls' = Append(calls, Call("temp_open", working_address[k].addr, 0, 0, "none"))
    /\ pc' = "write"
    /\ UNCHANGED <<inputs, result, offsets, exc, gpio, device_addr, busy_addr,
                   working_address, k, j, sensors, self_sensors>>

\* temp = VL6180X(i2c, address=default_i2c_address)
TempOpen ==
    /\ pc = "open"
    /\ calls' = Append(calls, Call("temp_open", default_i2c_address, 0, 0, "none"))
    /\ pc' = "write"
    /\ UNCHANGED <<inputs, result, offsets, exc, gpio, device_addr, busy_addr,
                   working_address, k, j, sensors, self_sensors>>

\* Mutant: the except clause puts the device back in reset.
TempOpenFailsReset ==
    /\ pc = "open"
    /\ calls' = Append(calls, Call("temp_open", default_i2c_address, 0, 0, "OSError"))
    /\ gpio' = [gpio EXCEPT ![working_address[k].channel] = "LOW"]
    /\ device_addr' = [device_addr EXCEPT ![working_address[k].channel] = 0]
    /\ pc' = AfterEntry(k, working_address)
    /\ k' = k + 1
    /\ UNCHANGED <<inputs, result, offsets, exc, busy_addr,
                   working_address, j, sensors, self_sensors>>

\* The temporary open raises OSError: printed, the loop goes on.
TempOpenFails ==
    /\ pc = "open"
    /\ calls' = Append(calls, Call("temp_open", default_i2c_address, 0, 0, "OSError"))
    /\ pc' = AfterOSError(k, working_address)
    /\ k' = k + 1
    /\ UNCHANGED <<inputs, result, offsets, exc, gpio, device_addr, busy_addr,
                   working_address, j, sensors, self_sensors>>

\* The temporary open raises an exception that is not an OSError: the
\* except clause of the loop does not catch it, __init__ prints it and
\* re-raises.
TempOpenRaises ==
    /\ pc = "open"
    /\ \E e \in OtherErrors :
         /\ calls' = Append(calls, Call("temp_open", default_i2c_address, 0, 0, e))
         /\ exc' = e
    /\ pc' = "raised"
    /\ UNCHANGED <<inputs, result, offsets, gpio, device_addr, busy_addr,
                   working_address, k, j, sensors, self_sensors>>

\* Mutant: the default address is written instead of the assigned one.
WriteAddrDefault ==
    /\ pc = "write"
    /\ device_addr' = WriteEffect(device_addr, default_i2c_address, default_i2c_address)
    /\ calls' = Append(calls, Call("write", default_i2c_address,
                                   SUBORDINATE_ADDR_REG, default_i2c_address, "none"))
    /\ pc' = AfterEntry(k, working_address)
    /\ k' = k + 1
    /\ UNCHANGED <<inputs, result, offsets, exc, gpio, busy_addr, working_address, j,
                   sensors, self_sensors>>

\* temp._write_8(SUBORDINATE_ADDR_REG, i2c_address)
WriteAddr ==
    /\ pc = "write"
    /\ LET a == working_address[k].addr
       IN  /\ device_addr' = WriteEffect(device_addr, default_i2c_address, a)
           /\ calls' = Append(calls, Call("write", default_i2c_address,
                                          SUBORDINATE_ADDR_REG, a, "none"))
    /\ pc' = AfterEntry(k, working_address)
    /\ k' = k + 1
    /\ UNCHANGED <<inputs, result, offsets, exc, gpio, busy_addr, working_address, j,
                   sensors, self_sensors>>

\* The write raises OSError: printed, the loop goes on.  The device may or
\* may not have taken the new address.
WriteAddrFails ==
    /\ pc = "write"
    /\ LET a == working_address[k].addr
       IN  /\ \/ device_addr' = device_addr
              \/ device_addr' = WriteEffect(device_addr, default_i2c_address, a)
           /\ calls' = Append(calls, Call("write", default_i2c_address,
                                          SUBORDINATE_ADDR_REG, a, "OSError"))
    /\ pc' = AfterOSError(k, working_address)
    /\ k' = k + 1
    /\ UNCHANGED <<inputs, result, offsets, exc, gpio, busy_addr, working_address, j,
                   sensors, self_sensors>>

\* The write raises an exception that is not an OSError: __init__ prints it
\* and re-raises.  The device may or may not have taken the new address.
WriteAddrRaises ==
    /\ pc = "write"
    /\ \E e \in OtherErrors :
         LET a == working_address[k].addr
         IN  /\ \/ device_addr' = device_addr
                \/ device_addr' = WriteEffect(device_addr, default_i2c_address, a)
             /\ calls' = Append(calls, Call("write", default_i2c_address,
                                            SUBORDINATE_ADDR_REG, a, e))
             /\ exc' = e
    /\ pc' = "raised"
    /\ UNCHANGED <<inputs, result, offsets, gpio, busy_addr, working_address, k, j,
                   sensors, self_sensors>>

\* Mutant: the second loop runs over the pending entries only.
ZipLenPending == Len(working_address)

\* Length of zip(i2c_addresses, offsets).
ZipLen == Min(Len(new_i2c_addresses), Len(offsets.items))

\* sensor = VL6180X(i2c, address=i2c_address, offset=offset); sensors.append
FinalOpen ==
    /\ pc = "final"
    /\ j <= ZipLen
    /\ LET a == new_i2c_addresses[j]
           o == offsets.items[j]
       IN  /\ sensors' = SensorsAfterOpen(sensors, a, o, TRUE)
           /\ calls' = Append(calls, Call("final_open", a, o, 0, "none"))
    /\ j' = j + 1
    /\ UNCHANGED <<inputs, result, offsets, pc, exc, gpio, device_addr, busy_addr,
                   working_address, k, self_sensors>>

\* The final open raises OSError: printed, nothing appended.
FinalOpenFails ==
    /\ pc = "final"
    /\ j <= ZipLen
    /\ LET a == new_i2c_addresses[j]
           o == offsets.items[j]
       IN  /\ sensors' = SensorsAfterOpen(sensors, a, o, FALSE)
           /\ calls' = Append(calls, Call("final_open", a, o, 0, "OSError"))
    /\ j' = j + 1
    /\ UNCHANGED <<inputs, result, offsets, pc, exc, gpio, device_addr, busy_addr,
                   working_address, k, self_sensors>>

\* The final open raises an exception that is not an OSError: the except
\* clause of the loop does not catch it, __init__ prints it and re-raises;
\* self.sensors is never assigned.
FinalOpenRaises ==
    /\ pc = "final"
    /\ j <= ZipLen
    /\ \E e \in OtherErrors :
         /\ calls' = Append(calls, Call("final_open", new_i2c_addresses[j],
                                        offsets.items[j], 0, e))
         /\ exc' = e
    /\ pc' = "raised"
    /\ UNCHANGED <<inputs, result, offsets, gpio, device_addr, busy_addr,
                   working_address, k, j, sensors, self_sensors>>

\* return sensors; self.sensors = ...
Return ==
    /\ pc = "final"
    /\ j > ZipLen
    /\ self_sensors' = sensors
    /\ pc' = "done"
    /\ UNCHANGED <<inputs, result, offsets, exc, gpio, device_addr, busy_addr,
                   working_address, k, j, sensors, calls>>

\* get_range(idx_sensor)
get_range ==
    /\ pc = "done"
    /\ \E idx \in IdxPool, rd \in Reads :
         result' = Query("get_range", self_sensors, idx, 0, rd.ok, rd.v)
    /\ UNCHANGED <<inputs, offsets, pc, exc, gpio, device_addr, busy_addr,
                   working_address, k, j, sensors, self_sensors, calls>>

\* get_lux(idx_sensor, gain)
get_lux ==
    /\ pc = "done"
    /\ \E idx \in IdxPool, gain \in GainPool, rd \in Reads :
         result' = Query("get_lux", self_sensors, idx, gain, rd.ok, rd.v)
    /\ UNCHANGED <<inputs, offsets, pc, exc, gpio, device_addr, busy_addr,
                   working_address, k, j, sensors, self_sensors, calls>>

\* get_range_status(idx_sensor)
get_range_status ==
    /\ pc = "done"
    /\ \E idx \in IdxPool, rd \in Reads :
         result' = Query("get_range_status", self_sensors, idx, 0, rd.ok, rd.v)
    /\ UNCHANGED <<inputs, offsets, pc, exc, gpio, device_addr, busy_addr,
                   working_address, k, j, sensors, self_sensors, calls>>

Next ==
    \/ CheckParameters
    \/ GpioSetup
    \/ GpioSetupRaises
    \/ Scan
    \/ ScanFails
    \/ I2CRaises
    \/ Enable
    \/ EnableRaises
    \/ TempOpen
    \/ TempOpenFails
    \/ TempOpenRaises
    \/ WriteAddr
    \/ WriteAddrFails
    \/ WriteAddrRaises
    \/ FinalOpen
    \/ FinalOpenFails
    \/ FinalOpenRaises
    \/ Return

Spec == Init /\ [][Next]_vars

\* The calls are made one after another by a single thread and, every
\* transport call returning, the run always takes its next step.
SpecFair == Init /\ [][Next]_vars /\ WF_vars(Next)

\* The constructor followed by any number of get_* calls.  The arguments are
\* the lists of the example script, or a prefix of them, passed under the
\* constructor's own parameter names (the script passes them as ids= and
\* gpios=, keywords __init__ does not have, so its call as written ends in
\* TypeError before the body of __init__ is entered).
ExampleAddresses == <<48, 49, 50>>

InitRead ==
    /\ Init
    /\ ControlParameters(ce_gpios, new_i2c_addresses, offsets, mode_gpio,
                         default_i2c_address)
    /\ mode_gpio = "BCM"
    /\ Len(new_i2c_addresses) <= Len(ExampleAddresses)
    /\ new_i2c_addresses = SubSeq(ExampleAddresses, 1, Len(new_i2c_addresses))
    /\ offsets = ListOffsets([i \in 1..Len(new_i2c_addresses) |-> ExampleOffset])

NextRead ==
    \/ Next
    \/ get_range
    \/ get_lux
    \/ get_range_status

SpecRead == InitRead /\ [][NextRead]_vars

\* ================================================================= claims
\* ------------------------------------------------- reading the call trace
Range(s) == {s[i] : i \in 1..Len(s)}
Indices(op) == {i \in 1..Len(calls) : calls[i].op = op}
Count(op) == Cardinality(Indices(op))
\* A pass of the first loop is named by the index e of its output_high
\* call, which returned; its temporary open, if issued, is call e + 1 and its
\* write e + 2.
Passes == {i \in Indices("output_high") : calls[i].ok}
\* The position in working_address of the pass that starts at call e.
EntryOf(e) == Cardinality({m \in Passes : m <= e})
OpenAttempted(e) == e + 1 <= Len(calls) /\ calls[e + 1].op = "temp_open"
\* The temporary open, the write of the pass raised a transport error.
OpenFailed(e) == OpenAttempted(e) /\ calls[e + 1].err = "OSError"
WriteAttempted(e) == e + 2 <= Len(calls) /\ calls[e + 2].op = "write"
WriteFailed(e) == WriteAttempted(e) /\ calls[e + 2].err = "OSError"
WriteSucceeded(e) == WriteAttempted(e) /\ calls[e + 2].ok
\* The reassignment step of the pass raised a transport error.
ReassignFailed(e) == OpenFailed(e) \/ WriteFailed(e)
\* The reassignment attempt of the pass is over, one way or the other.
AttemptOver(e) == ReassignFailed(e) \/ WriteSucceeded(e)
\* Passes of the first loop that drove pin p high.
PassesOf(p) == {e \in Passes : calls[e].x = p}
\* The final_open calls, in order: the i-th belongs to input position i.
Finals == SelectSeq(calls, LAMBDA c : c.op = "final_open")
Sequencing == pc \in {"scan", "enable", "open", "write", "final", "done"}
Asserted == {p \in Pins : gpio[p] = "HIGH"}
AtDefault == {p \in Asserted : device_addr[p] = default_i2c_address}

\* ---------------------------------------------------------------------- C1
\* C1 as stated: during sequencing, whatever the input and whatever fails,
\* at most one asserted device still answers at the default address (taken
\* here for inputs that do not request the default address as a target).
C1_AtMostOneAtDefault ==
    (Sequencing /\ default_i2c_address \notin Range(new_i2c_addresses))
        => Cardinality(AtDefault) <= 1

\* C1 amended: at every instant at most one asserted enable line belongs to
\* a device whose reassignment attempt is still outstanding; every other
\* asserted device that still answers at the default address is one whose
\* own temporary open or register write raised (its line is left asserted),
\* unless the default address is itself a requested target.
C1_Outstanding == {p \in Asserted : \A q \in PassesOf(p) : ~AttemptOver(q)}
C1_AtMostOneOutstanding ==
    Sequencing =>
        /\ Cardinality(C1_Outstanding) <= 1
        /\ default_i2c_address \notin Range(new_i2c_addresses) =>
             \A p \in AtDefault :
                 \/ p \in C1_Outstanding
                 \/ \E q \in PassesOf(p) : ReassignFailed(q)

\* Two asserted devices answer at the default address: one whose reassignment
\* failed, and the next one, whose attempt is under way.
C1_Witness ==
    /\ pc = "write"
    /\ default_i2c_address \notin Range(new_i2c_addresses)
    /\ Cardinality(AtDefault) = 2
    /\ Cardinality(C1_Outstanding) = 1

\* ---------------------------------------------------------------------- C2
\* Handles of self.sensors bound to address a.
HandlesAt(a) == {i \in 1..Len(self_sensors) : self_sensors[i].address = a}
\* Input positions whose final open returned.
FinalOk == {i \in 1..Len(Finals) : Finals[i].ok}

\* C2: when the temporary open or the register write of a pending device
\* raises OSError, every later entry of working_address still has its enable
\* line asserted and its own open (and, if the open returned, write)
\* attempted, and each of them whose write and final open succeeded has a
\* handle in the returned collection.
C2_ContinuesAfterFailure ==
    pc = "done" =>
        \A e \in Passes : ReassignFailed(e) =>
            /\ Cardinality(Passes) = Len(working_address)
            /\ \A f \in Passes : f > e =>
                 /\ calls[f].x = working_address[EntryOf(f)].channel
                 /\ gpio[calls[f].x] = "HIGH"
                 /\ OpenAttempted(f)
                 /\ calls[f + 1].ok =>
                      /\ WriteAttempted(f)
                      /\ calls[f + 2].z = working_address[EntryOf(f)].addr
                 /\ \A i \in FinalOk :
                      (WriteSucceeded(f) /\ Finals[i].x = calls[f + 2].z)
                          => HandlesAt(Finals[i].x) # {}

\* The first pending device failed, a later one was reassigned and opened, and
\* it is in the result.
C2_Witness ==
    /\ pc = "done"
    /\ \E e, f \in Passes :
         /\ e < f
         /\ ReassignFailed(e)
         /\ WriteSucceeded(f)
         /\ \E i \in FinalOk : Finals[i].x = calls[f + 2].z
                                 /\ HandlesAt(Finals[i].x) # {}

\* ---------------------------------------------------------------------- C3
\* The addresses whose reassignment step failed.
FailedAddresses == {working_address[EntryOf(e)].addr : e \in {f \in Passes : ReassignFailed(f)}}

\* C3 as stated: a device whose reassignment step failed is never in the
\* returned collection (taken here for distinct target addresses).
C3_FailedIsAbsent ==
    (pc = "done" /\ \A a, b \in 1..Len(new_i2c_addresses) :
                        a # b => new_i2c_addresses[a] # new_i2c_addresses[b])
        => \A a \in FailedAddresses : HandlesAt(a) = {}

\* C3 amended: a failed reassignment is not recorded and not retried; the
\* final open at the device's target address is still attempted, and the
\* device is in the returned collection exactly when that final open returns.
C3_FailedDecidedByFinalOpen ==
    pc = "done" =>
        \A e \in Passes : ReassignFailed(e) =>
            LET a == working_address[EntryOf(e)].addr
            IN  /\ Cardinality({f \in Passes : calls[f].x = calls[e].x}) = 1
                /\ \E i \in 1..Len(Finals) : Finals[i].x = a
                /\ HandlesAt(a) # {} <=> \E i \in FinalOk : Finals[i].x = a

\* A device whose temporary open raised is in the returned collection.
C3_Witness ==
    /\ pc = "done"
    /\ \E e \in Passes :
         /\ OpenFailed(e)
         /\ HandlesAt(working_address[EntryOf(e)].addr) # {}

\* ---------------------------------------------------------------------- C4
\* The handles of the first n input positions whose final open returned.
RECURSIVE Survivors(_)
Survivors(n) ==
    IF n = 0 THEN <<>>
    ELSE IF Finals[n].ok
         THEN Append(Survivors(n - 1), [address |-> new_i2c_addresses[n],
                                        offset |-> offsets.items[n]])
         ELSE Survivors(n - 1)

\* C4: the returned collection holds exactly the devices whose final open
\* returned, in input order and compacted, so it is never longer than the
\* input.
C4_Subsequence ==
    pc = "done" =>
        /\ Len(Finals) = Len(new_i2c_addresses)
        /\ self_sensors = Survivors(Len(Finals))
        /\ Len(self_sensors) = Cardinality(FinalOk)
        /\ Len(self_sensors) <= Len(new_i2c_addresses)

\* The first and third final opens returned and the second raised: the
\* result holds the first and the third device, in that order.
C4_Witness ==
    /\ pc = "done"
    /\ Len(new_i2c_addresses) = 3
    /\ FinalOk = {1, 3}
    /\ Len(self_sensors) = 2
    /\ self_sensors[1].address = new_i2c_addresses[1]
    /\ self_sensors[2].address = new_i2c_addresses[3]
    /\ new_i2c_addresses[1] # new_i2c_addresses[3]

\* ---------------------------------------------------------------------- C5
\* Input positions whose target address the scan reported.
AlreadyLive == {i \in 1..Len(new_i2c_addresses) : new_i2c_addresses[i] \in busy_addr}

\* C5 as stated: a device whose target address the scan reported is in the
\* returned collection.
C5_LiveIsIncluded ==
    pc = "done" => \A i \in AlreadyLive : HandlesAt(new_i2c_addresses[i]) # {}

\* C5 amended: for a device whose target address the scan reported, no
\* enable line is asserted, no temporary open is made and no address write is
\* issued on its behalf; a final open at its address is attempted, and the
\* device is in the returned collection exactly when that open returns.
C5_LiveIsOpenedNotReassigned ==
    \A i \in AlreadyLive :
        /\ \A e \in Passes : calls[e].x # ce_gpios[i]
        /\ \A w \in Indices("write") : calls[w].z # new_i2c_addresses[i]
        /\ Count("temp_open") = Cardinality(Passes) - (IF pc = "open" THEN 1 ELSE 0)
        /\ Count("output_high") <= Len(new_i2c_addresses) - Cardinality(AlreadyLive)
        /\ pc = "done" =>
             /\ Finals[i].x = new_i2c_addresses[i]
             /\ HandlesAt(new_i2c_addresses[i]) # {}
                    <=> \E m \in FinalOk : Finals[m].x = new_i2c_addresses[i]

\* The scan reported the second device's address only: the first device was
\* reassigned, the second was opened directly and is in the result.
C5_Witness ==
    /\ pc = "done"
    /\ Len(new_i2c_addresses) = 2
    /\ AlreadyLive = {2}
    /\ Count("write") = 1
    /\ 2 \in FinalOk
    /\ HandlesAt(new_i2c_addresses[2]) # {}

\* ---------------------------------------------------------------------- C6
\* The configuration is invalid in one of the ways C6 lists.
C6_Invalid ==
    \/ Len(ce_gpios) # Len(new_i2c_addresses)
    \/ offsets.kind = "list" /\ Len(ce_gpios) # Len(offsets.items)
    \/ \E i \in 1..Len(new_i2c_addresses) :
           new_i2c_addresses[i] < 0 \/ new_i2c_addresses[i] > 127
    \/ default_i2c_address < 0 \/ default_i2c_address > 127
    \/ mode_gpio \notin {"BCM", "BOARD"}

\* C6: on an invalid configuration the constructor fails with the
\* configuration error (AssertionError) before any hardware action: no GPIO
\* call, no scan, no open and no write is ever issued.
C6_FailsBeforeHardware ==
    C6_Invalid =>
        /\ calls = <<>>
        /\ \A p \in Pins : gpio[p] = "UNSET" /\ device_addr[p] = 0
        /\ pc \in {"check", "raised"}
        /\ pc = "raised" => exc = "AssertionError"
        /\ self_sensors = <<>>

\* The constructor has failed on a target address above 127, all lists being
\* of one length.
C6_Witness ==
    /\ pc = "raised"
    /\ exc = "AssertionError"
    /\ offsets.kind = "list"
    /\ Len(ce_gpios) = 2
    /\ Len(new_i2c_addresses) = 2
    /\ Len(offsets.items) = 2
    /\ new_i2c_addresses[2] = 128
    /\ mode_gpio = "BCM"
    /\ calls = <<>>

\* ---------------------------------------------------------------------- C7
\* C7 as stated: with offsets omitted (None) and everything else valid, the
\* constructor does not fail (it goes on with an offset of zero per device).
C7_OffsetsOptional ==
    /\ (/\ offsets.kind = "None"
        /\ Len(ce_gpios) = Len(new_i2c_addresses)
        /\ \A i \in 1..Len(new_i2c_addresses) :
               0 <= new_i2c_addresses[i] /\ new_i2c_addresses[i] <= 127
        /\ 0 <= default_i2c_address /\ default_i2c_address <= 127
        /\ mode_gpio \in {"BCM", "BOARD"})
         => pc # "raised"

\* ---------------------------------------------------------------------- C8
LastCall == calls[Len(calls)]
\* The hardware calls made inside the try blocks of the two loops.
Guarded == {"temp_open", "write", "final_open"}
\* The calls that raised a transport error inside a try block of the loops.
GuardedFailures == {i \in 1..Len(calls) :
                       calls[i].op \in Guarded /\ calls[i].err = "OSError"}

\* C8 as stated: no transport failure, the bus scan's included, makes the
\* constructor fail.
C8_NeverAborts ==
    ~(/\ pc = "raised"
      /\ calls # <<>>
      /\ LastCall.err = "OSError"
      /\ LastCall.op \in Guarded \cup {"scan"})

\* C8 amended: a transport failure (OSError) of a temporary open, an address
\* write or a final open never aborts the run: the run goes on with its next
\* step and, when nothing else raises, returns a collection no longer than
\* the input.  A transport failure of the bus scan is printed and re-raised,
\* so the constructor fails with OSError; so, with the exception raised, does
\* any failure of a call made outside the try blocks of the two loops
\* (the GPIO calls, the bus construction) and any exception other than
\* OSError.
C8_GuardedFailuresNeverAbort ==
    /\ pc = "raised" <=> exc # "none"
    /\ pc = "raised" =>
         \/ exc = "AssertionError" /\ calls = <<>>
         \/ /\ calls # <<>>
            /\ LastCall.err = exc
            /\ exc \in ErrPool
            /\ exc = "OSError" => LastCall.op \notin Guarded
    /\ \A i \in 1..Len(calls) : ~calls[i].ok =>
         \/ i \in GuardedFailures
         \/ i = Len(calls) /\ pc = "raised"
    /\ \A i \in GuardedFailures : i = Len(calls) => pc \in {"enable", "final", "done"}
    /\ pc \notin {"done", "raised"} => ENABLED Next
    /\ pc = "done" => Len(self_sensors) <= Len(new_i2c_addresses)

\* The constructor has returned although a temporary open, an address write
\* and a final open raised OSError.
C8_Witness ==
    /\ pc = "done"
    /\ \E i \in GuardedFailures : calls[i].op = "temp_open"
    /\ \E i \in GuardedFailures : calls[i].op = "write"
    /\ \E i \in GuardedFailures : calls[i].op = "final_open"
    /\ self_sensors # <<>>

\* ---------------------------------------------------------------------- C9
C9_Snapshot ==
    /\ Count("scan") <= 1
    /\ pc \in {"enable", "open", "write", "final", "done"} =>
         /\ Count("scan") = 1
         /\ \A i \in Indices("scan") : calls[i].ok
    /\ pc \in {"check", "gpio", "scan"} => Count("scan") = 0
    /\ \A i \in Indices("scan") :
         /\ \E l \in Indices("output_low") : l < i
         /\ \A e \in Passes : e > i
    /\ pc = "scan" => \A i \in 1..Len(ce_gpios) : gpio[ce_gpios[i]] = "LOW"
    /\ pc \in {"enable", "open", "write", "final", "done"} =>
         /\ {working_address[q].addr : q \in 1..Len(working_address)}
                = Range(new_i2c_addresses) \ busy_addr
         /\ \A e \in Passes :
                calls[e].x = working_address[EntryOf(e)].channel
C9_Fixed ==
    pc \in {"enable", "open", "write", "final", "done"} =>
        /\ busy_addr' = busy_addr
        /\ working_address' = working_address

\* C9: the bus is scanned exactly once in a run, after all enable lines were
\* driven low and before any is asserted; the pending entries are the
\* requested addresses missing from that one snapshot, and neither the
\* snapshot nor the pending entries change afterwards.
C9_ScanOnce == []C9_Snapshot /\ [][C9_Fixed]_vars

\* A run has returned after one scan that reported one device as live and
\* left two to be reassigned.
C9_Witness ==
    /\ pc = "done"
    /\ Count("scan") = 1
    /\ Count("output_high") = 2
    /\ Cardinality(AlreadyLive) = 1

\* --------------------------------------------------------------------- C10
\* C10 as stated: a get_* call never lets an error out; for an index outside
\* 0..len-1 and for a failed read it hands back None.
C10_OutsideIsNone ==
    result.op # "none" =>
        /\ result.outcome # "raised"
        /\ result.idx \notin 0..(Len(self_sensors) - 1) => result.outcome = "None"
        /\ result.read = "failed" => result.outcome = "None"

C10_Result ==
    result.op # "none" =>
        LET n == Len(self_sensors)
        IN  /\ result.outcome \in {"value", "None"}
            /\ (result.idx < -n \/ result.idx >= n) =>
                   result.outcome = "None" /\ result.read = "none"
            /\ result.read = "failed" => result.outcome = "None"
            /\ (-n <= result.idx /\ result.idx < 0 /\ result.read = "ok") =>
                   /\ result.outcome = "value"
                   /\ result.address = self_sensors[n + result.idx + 1].address
            /\ (0 <= result.idx /\ result.idx < n /\ result.read = "ok") =>
                   /\ result.outcome = "value"
                   /\ result.address = self_sensors[result.idx + 1].address
C10_Unchanged == pc = "done" => self_sensors' = self_sensors

\* C10 amended: get_range, get_range_status and get_lux never propagate an
\* error and leave the sensor collection unchanged; they return None when the
\* read fails and when the index is out of range in the list's own sense
\* (idx < -len or idx >= len).  A negative index from -len to -1 is not out of
\* range: it counts from the end of the collection and returns that sensor's
\* reading.
C10_ReadsNeverRaise == []C10_Result /\ [][C10_Unchanged]_vars

\* get_range_status was called with the index one past the end of a
\* non-empty collection and handed back None.
C10_Witness ==
    /\ pc = "done"
    /\ result.op = "get_range_status"
    /\ self_sensors # <<>>
    /\ result.idx = Len(self_sensors)
    /\ result.outcome = "None"

\* --------------------------------------------------------------------- C11
\* The input position of the m-th handle of the result: the m-th position
\* whose final open returned.
PositionOf(m) == CHOOSE i \in FinalOk : Cardinality({x \in FinalOk : x <= i}) = m

\* C11: every handle of the returned collection is bound to the target
\* address of its own input position and carries the offset given at that
\* position (the final open was made with both); none is bound to the default
\* address unless that address was requested as a target.
C11_HandleBinding ==
    pc = "done" =>
        /\ Len(self_sensors) = Cardinality(FinalOk)
        /\ \A m \in 1..Len(self_sensors) :
             LET i == PositionOf(m)
             IN  /\ self_sensors[m].address = new_i2c_addresses[i]
                 /\ self_sensors[m].offset = offsets.items[i]
                 /\ Finals[i].x = new_i2c_addresses[i]
                 /\ Finals[i].y = offsets.items[i]
                 /\ self_sensors[m].address = default_i2c_address
                        => default_i2c_address \in Range(new_i2c_addresses)

\* The first final open raised: the first handle of the result is the second
\* device's, at its own address and with its own (different) offset.
C11_Witness ==
    /\ pc = "done"
    /\ Len(new_i2c_addresses) = 3
    /\ FinalOk = {2, 3}
    /\ self_sensors[1].address = new_i2c_addresses[2]
    /\ self_sensors[1].offset = offsets.items[2]
    /\ offsets.items[2] # offsets.items[1]
    /\ new_i2c_addresses[2] # new_i2c_addresses[1]
    /\ \E e \in Passes : WriteSucceeded(e) /\ calls[e + 2].z = new_i2c_addresses[2]

\* --------------------------------------------------------------------- C12
AllOk == \A i \in 1..Len(calls) : calls[i].ok
\* The calls of the first loop for the first n input positions.
RECURSIVE ExpectedReassign(_)
ExpectedReassign(n) ==
    IF n = 0 THEN <<>>
    ELSE ExpectedReassign(n - 1) \o
         << Call("output_high", ce_gpios[n], 0, 0, "none"),
            Call("temp_open", default_i2c_address, 0, 0, "none"),
            Call("write", default_i2c_address, 530, new_i2c_addresses[n], "none") >>
ExpectedFinals ==
    [i \in 1..Len(new_i2c_addresses) |->
        Call("final_open", new_i2c_addresses[i], offsets.items[i], 0, "none")]

\* C12: in a failure-free run with distinct target addresses and an empty
\* scan, the calls after the scan are exactly: per device, in input order,
\* its enable line asserted, a handle opened at the default address and its
\* target address written to register 0x212 through that handle; then one
\* final open per device, in input order, at its target address with its
\* offset; and the result has one handle per device, in input order.
C12_FailureFreeTrace ==
    (/\ pc = "done"
     /\ AllOk
     /\ busy_addr = {}
     /\ \A a, b \in 1..Len(new_i2c_addresses) :
            a # b => new_i2c_addresses[a] # new_i2c_addresses[b])
        => /\ SubSeq(calls, 6, Len(calls))
                = ExpectedReassign(Len(new_i2c_addresses)) \o ExpectedFinals
           /\ calls[5].op = "scan"
           /\ self_sensors = [i \in 1..Len(new_i2c_addresses) |->
                                [address |-> new_i2c_addresses[i],
                                 offset |-> offsets.items[i]]]

\* The example's run: lines 10, 9, 11, addresses 0x30, 0x31, 0x32, default
\* 0x29, nothing found by the scan, nothing failed, three handles returned.
C12_Witness ==
    /\ pc = "done"
    /\ AllOk
    /\ busy_addr = {}
    /\ ce_gpios = <<10, 9, 11>>
    /\ new_i2c_addresses = <<48, 49, 50>>
    /\ offsets.items = <<100, 100, 100>>
    /\ default_i2c_address = 41
    /\ self_sensors = [i \in 1..3 |-> [address |-> 47 + i, offset |-> 100]]
    /\ Count("write") = 3

\* --------------------------------------------------------------------- C13
\* C13 as stated: no final open is attempted for a pending device whose
\* temporary open or register write raised (taken here for distinct target
\* addresses).
C13_NoFinalOpenForFailed ==
    (pc = "done" /\ \A a, b \in 1..Len(new_i2c_addresses) :
                        a # b => new_i2c_addresses[a] # new_i2c_addresses[b])
        => \A a \in FailedAddresses :
               \A i \in Indices("final_open") : calls[i].x # a

\* C13 amended: the final phase attempts one handle open per input device,
\* in input order, at its target address: for the already-live devices, for
\* the pending devices that were reassigned, and also for the pending
\* devices whose temporary open or register write raised.
C13_FinalOpenForEveryInput ==
    pc = "done" =>
        /\ Len(Finals) = Len(new_i2c_addresses)
        /\ \A i \in 1..Len(Finals) : Finals[i].x = new_i2c_addresses[i]
        /\ \A e \in Passes : ReassignFailed(e) =>
             \E i \in Indices("final_open") :
                 /\ i > e
                 /\ calls[i].x = working_address[EntryOf(e)].addr

\* The temporary open of a pending device raised, and so did the final open
\* that was still made at its address.
C13_Witness ==
    /\ pc = "done"
    /\ \E e \in Passes :
         /\ OpenFailed(e)
         /\ \E i \in Indices("final_open") :
              calls[i].x = working_address[EntryOf(e)].addr /\ ~calls[i].ok

\* --------------------------------------------------------------------- C14
\* First input position that requests address a.
FirstPosition(a) ==
    CHOOSE i \in 1..Len(new_i2c_addresses) :
        /\ new_i2c_addresses[i] = a
        /\ \A m \in 1..(i - 1) : new_i2c_addresses[m] # a
PassAddress(e) == working_address[EntryOf(e)].addr

\* C14: whatever fails, the pending entries are processed one after another
\* in input order: a line is asserted only after the attempt of every earlier
\* pass is over, the passes follow the input order of their addresses (and,
\* target addresses being distinct, each pass asserts the line given at that
\* input position), and every final open comes after the last pass's attempt.
C14_OneAfterAnother ==
    /\ \A e, f \in Passes : e < f =>
         /\ AttemptOver(e)
         /\ f >= e + 2
         /\ FirstPosition(PassAddress(e)) < FirstPosition(PassAddress(f))
    /\ \A e \in Passes :
         /\ PassAddress(e) \in Range(new_i2c_addresses) \ busy_addr
         /\ (\A a, b \in 1..Len(new_i2c_addresses) :
                a # b => new_i2c_addresses[a] # new_i2c_addresses[b])
              => calls[e].x = ce_gpios[FirstPosition(PassAddress(e))]
    /\ \A i \in Indices("final_open") :
         /\ Cardinality(Passes) = Len(working_address)
         /\ \A e \in Passes : e < i /\ AttemptOver(e)

\* Three pending devices: the first one's write raised, the second one's
\* temporary open raised, the third was reassigned, and the final opens have
\* begun.
C14_Witness ==
    /\ pc = "final"
    /\ j = 2
    /\ Cardinality(Passes) = 3
    /\ \E e, f, g \in Passes :
         e < f /\ f < g /\ WriteFailed(e) /\ OpenFailed(f) /\ WriteSucceeded(g)

\* --------------------------------------------------------------------- C15
C15_StaysHigh == \A p \in Pins : gpio[p] = "HIGH" => gpio'[p] = "HIGH"
C15_AssertedAtReturn ==
    pc \in {"final", "done"} =>
        /\ Cardinality(Passes) = Len(working_address)
        /\ \A e \in Passes : gpio[calls[e].x] = "HIGH"
        /\ \A q \in 1..Len(working_address) : gpio[working_address[q].channel] = "HIGH"

\* C15: an enable line that has been asserted is never driven low again in
\* the run, not even when the device's temporary open or register write
\* raises; when the first loop is over (and at return) the line of every
\* processed pending entry is asserted.
C15_NeverDeasserted == []C15_AssertedAtReturn /\ [][C15_StaysHigh]_vars

\* The run has returned; the temporary open of one pending device and the
\* write of another raised, and both lines are still asserted.
C15_Witness ==
    /\ pc = "done"
    /\ \E e, f \in Passes :
         /\ OpenFailed(e) /\ WriteFailed(f)
         /\ gpio[calls[e].x] = "HIGH" /\ gpio[calls[f].x] = "HIGH"

\* --------------------------------------------------------------------- C16
C16_SingleAttempt ==
    /\ \A p \in Pins : Cardinality(PassesOf(p)) <= 1
    /\ Count("output_high") <= Len(working_address)
    /\ Count("temp_open") <= Count("output_high")
    /\ Count("write") <= Cardinality({i \in Indices("temp_open") : calls[i].ok})
    /\ \A i \in Indices("temp_open") : calls[i - 1].op = "output_high"
    /\ \A i \in Indices("write") :
         /\ calls[i - 1].op = "temp_open" /\ calls[i - 1].ok
         /\ Cardinality({m \in Indices("write") : calls[m].z = calls[i].z}) = 1
    /\ Count("final_open") <= Len(new_i2c_addresses)
    /\ \A i \in Indices("final_open") :
         Cardinality({m \in Indices("final_open") : calls[m].x = calls[i].x})
             <= Cardinality({n \in 1..Len(new_i2c_addresses) :
                                 new_i2c_addresses[n] = calls[i].x})
    /\ Count("scan") <= 1

\* C16: every transport call returning (or raising), a run asserts each
\* pending entry's line at most once, makes at most one temporary open and
\* one register write per pending entry and at most one final open per input
\* device, retries nothing after a failure, and comes to its end.
C16_SingleAttemptThenEnds == []C16_SingleAttempt /\ <>(pc \in {"done", "raised"})

\* The run has returned after a failed temporary open and a failed final
\* open: two calls were made for that pending entry's line and address (the
\* enable and the one open), and one final open per input device.
C16_Witness ==
    /\ pc = "done"
    /\ Len(new_i2c_addresses) = 2
    /\ Count("final_open") = 2
    /\ Count("output_high") = 2
    /\ Count("temp_open") = 2
    /\ Count("write") = 1
    /\ \E i \in Indices("final_open") : ~calls[i].ok
    /\ \E e \in Passes : OpenFailed(e)

\* --------------------------------------------------------------------- C17
\* C17: in a run in which no call fails, with distinct target addresses none
\* of which is the default address, at most one asserted device answers at
\* the default address at any instant, and at return every pending device
\* answers at its own target address.
C17_FailureFreeAddresses ==
    (/\ Sequencing
     /\ AllOk
     /\ default_i2c_address \notin Range(new_i2c_addresses)
     /\ \A a, b \in 1..Len(new_i2c_addresses) :
            a # b => new_i2c_addresses[a] # new_i2c_addresses[b])
        => /\ Cardinality(AtDefault) <= 1
           /\ pc \in {"final", "done"} =>
                /\ AtDefault = {}
                /\ \A i \in 1..Len(new_i2c_addresses) :
                     new_i2c_addresses[i] \notin busy_addr
                         => device_addr[ce_gpios[i]] = new_i2c_addresses[i]

\* A failure-free run has returned with three devices reassigned, each
\* answering at its own address.
C17_Witness ==
    /\ pc = "done"
    /\ AllOk
    /\ busy_addr = {}
    /\ new_i2c_addresses = <<48, 49, 50>>
    /\ device_addr[10] = 48 /\ device_addr[9] = 49 /\ device_addr[11] = 50

\* --------------------------------------------------------------------- C18
\* C18: target addresses being distinct, the line of each pending device is
\* asserted exactly once and the line of an already-live device never: it is
\* still low at return, although a final open at its address was attempted
\* and, when it returned, the device is in the result.
C18_LiveStaysInReset ==
    (\A a, b \in 1..Len(new_i2c_addresses) :
         a # b => new_i2c_addresses[a] # new_i2c_addresses[b])
        => /\ \A i \in AlreadyLive :
                /\ PassesOf(ce_gpios[i]) = {}
                /\ gpio[ce_gpios[i]] = "LOW"
                /\ device_addr[ce_gpios[i]] = 0
                /\ pc = "done" =>
                     /\ Finals[i].x = new_i2c_addresses[i]
                     /\ Finals[i].ok => HandlesAt(new_i2c_addresses[i]) # {}
           /\ pc \in {"final", "done"} =>
                \A i \in 1..Len(new_i2c_addresses) : i \notin AlreadyLive =>
                    /\ Cardinality(PassesOf(ce_gpios[i])) = 1
                    /\ gpio[ce_gpios[i]] = "HIGH"

\* The scan reported the first device's address: at return its line is low,
\* the second device's line was asserted once, and both are in the result.
C18_Witness ==
    /\ pc = "done"
    /\ Len(new_i2c_addresses) = 2
    /\ AlreadyLive = {1}
    /\ gpio[ce_gpios[1]] = "LOW"
    /\ gpio[ce_gpios[2]] = "HIGH"
    /\ Len(self_sensors) = 2

\* --------------------------------------------------------------------- C19
\* Input positions that request address a, and the last of them.
PositionsOf(a) == {i \in 1..Len(new_i2c_addresses) : new_i2c_addresses[i] = a}
LastPosition(a) == CHOOSE i \in PositionsOf(a) : \A m \in PositionsOf(a) : m <= i

\* C19 as stated: for an address requested by several input devices and
\* missing from the scan, exactly one reassignment write is issued.
C19_ExactlyOneWrite ==
    pc = "done" =>
        \A a \in Range(new_i2c_addresses) \ busy_addr :
            Cardinality(PositionsOf(a)) >= 2 =>
                Cardinality({w \in Indices("write") : calls[w].z = a}) = 1

\* C19 amended: duplicate target addresses raise no configuration error; for
\* an address requested by several input devices and missing from the scan,
\* only the line of the last of these devices is asserted, and one
\* reassignment attempt is made: the address is written exactly once when the
\* temporary open returned and not at all when it raised; a final open at
\* the address is made once per input entry, so the result holds one handle
\* at that address per entry whose open returned.
C19_Duplicates ==
    /\ (~C6_Invalid /\ offsets.kind = "list") => exc # "AssertionError"
    /\ pc \in {"final", "done"} =>
         \A a \in Range(new_i2c_addresses) \ busy_addr :
             LET lines == {ce_gpios[i] : i \in PositionsOf(a)}
                 mine == {e \in Passes : PassAddress(e) = a}
             IN  /\ Cardinality(mine) = 1
                 /\ \A e \in mine : calls[e].x = ce_gpios[LastPosition(a)]
                 /\ \A p \in lines : p # ce_gpios[LastPosition(a)] =>
                        gpio[p] = "LOW" /\ PassesOf(p) = {}
                 /\ Cardinality({w \in Indices("write") : calls[w].z = a})
                      = Cardinality({e \in mine : OpenAttempted(e) /\ calls[e + 1].ok})
                 /\ pc = "done" =>
                      /\ Cardinality({i \in Indices("final_open") : calls[i].x = a})
                           = Cardinality(PositionsOf(a))
                      /\ Cardinality(HandlesAt(a))
                           = Cardinality({i \in FinalOk : Finals[i].x = a})

\* Devices 1 and 3 share an address the scan did not report: line 11 alone
\* was asserted for it, it was written once, and the result holds two handles
\* bound to it.
C19_Witness ==
    /\ pc = "done"
    /\ new_i2c_addresses = <<48, 49, 48>>
    /\ busy_addr = {}
    /\ gpio[10] = "LOW" /\ gpio[11] = "HIGH"
    /\ Cardinality({w \in Indices("write") : calls[w].z = 48}) = 1
    /\ Cardinality(HandlesAt(48)) = 2
====
